---- MODULE Spec2Model ----
(***************************************************************************)
(* A model of the Landscape client charm (src/src/charm.py): the           *)
(* configuration transformer, the additional-configuration parser, the     *)
(* config file merger, the process gateway and the trigger handlers.       *)
(*                                                                         *)
(* A Python str is modelled as a sequence of atoms.  An atom is one        *)
(* punctuation character ("-", "_", "=", "[", "]", "'", a blank, a line    *)
(* feed, a backslash, a base64 digit ...) or a run of letters that no      *)
(* operation of the program splits.  A dict is a function with a finite    *)
(* domain.  A configuration value is a tagged record: [str |-> atoms] or   *)
(* [bool |-> b].                                                           *)
(***************************************************************************)
EXTENDS Integers, Sequences, FiniteSets, TLC

VARIABLES
    config,       \* self.config, the orchestrator's configuration of the unit
    environ,      \* os.environ of the hook process
    status,       \* self.unit.status
    confFile,     \* content of CLIENT_CONF_FILE, or NoFile
    certFile,     \* content of CERT_FILE (bytes), or NoCert
    aptOverride,  \* whether APT_CONF_OVERRIDE exists
    installed,    \* whether CLIENT_PACKAGE is installed
    trigger,      \* the handler that ran last
    trace,        \* the steps and external commands of the last handler, in order
    ppaEnv,       \* the environment handed to add-apt-repository in the last handler
    raised,       \* the kind of error that escaped the last handler, or "none"
    ccOut,        \* the call of create_client_config in the last handler: the
                  \* files it found and what it gave, or NotCalled
    critical,     \* number of logger.critical records of the last handler
    eventFailed,  \* whether event.fail() was called in the last handler
    invocation    \* process_helper called on its own: what the command does,
                  \* hide_errors and what the call returned; NotCalled in
                  \* the handlers

vars == <<config, environ, status, confFile, certFile, aptOverride, installed,
          trigger, trace, ppaEnv, raised, ccOut, critical, eventFailed,
          invocation>>

----------------------------------------------------------------------------
(* Strings, values and dicts *)

NL == "\n"
BACKSLASH == "\\"
QUOTE == "'"
BLANK == " "
PERCENT == "%"

Str(s) == [str |-> s]
Bool(b) == [bool |-> b]

IsStr(v) == DOMAIN v = {"str"}

\* Python truthiness: `if v`
Truthy(v) == IF IsStr(v) THEN v.str # <<>> ELSE v.bool

\* str(v)
PyStr(v) == IF IsStr(v) THEN v.str ELSE IF v.bool THEN <<"True">> ELSE <<"False">>

EmptyDict == [k \in {} |-> <<>>]

\* d1.update(d2)
Update(d1, d2) ==
    [k \in DOMAIN d1 \cup DOMAIN d2 |-> IF k \in DOMAIN d2 THEN d2[k] ELSE d1[k]]

\* str.replace(old, new) for a one-atom `old`
Replace(s, old, new) == [i \in 1..Len(s) |-> IF s[i] = old THEN new ELSE s[i]]

\* `needle in hay`
Contains(hay, needle) ==
    \E i \in 0..(Len(hay) - Len(needle)) :
        SubSeq(hay, i + 1, i + Len(needle)) = needle

\* str.strip() / str.rstrip()
RECURSIVE LStrip(_)
LStrip(s) == IF s # <<>> /\ Head(s) = BLANK THEN LStrip(Tail(s)) ELSE s

RECURSIVE RStrip(_)
RStrip(s) ==
    IF s # <<>> /\ s[Len(s)] = BLANK THEN RStrip(SubSeq(s, 1, Len(s) - 1)) ELSE s

Strip(s) == LStrip(RStrip(s))

\* str.lower(), on the atoms that have an upper-case letter
Lower(s) ==
    [i \in 1..Len(s) |->
        CASE s[i] = "PPA" -> "ppa"
          [] s[i] = "Client" -> "client"
          [] OTHER -> s[i]]

\* the escapes of repr() that the atoms need
RECURSIVE Escape(_)
Escape(s) ==
    IF s = <<>> THEN <<>>
    ELSE (CASE Head(s) = NL -> <<BACKSLASH, "n">>
            [] Head(s) = BACKSLASH -> <<BACKSLASH, BACKSLASH>>
            [] OTHER -> <<Head(s)>>) \o Escape(Tail(s))

\* repr(raw) of a str without a single quote in it
Repr(s) == <<QUOTE>> \o Escape(s) \o <<QUOTE>>

----------------------------------------------------------------------------
(* Program constants *)

APT_CONF_OVERRIDE == <<"/etc/apt/apt.conf.d/99landscapeoverride">>
CERT_FILE == <<"/etc/ssl/certs/landscape_server_ca.crt">>
CLIENT_CONF_FILE == <<"/etc/landscape/client.conf">>
CLIENT_PACKAGE == <<"landscape", "-", "client">>

K_ppa == <<"ppa">>
K_disable_unattended_upgrades == <<"disable", "-", "unattended", "-", "upgrades">>
K_additional_client_configuration ==
    <<"additional", "-", "client", "-", "configuration">>

CHARM_ONLY_CONFIGS ==
    {K_ppa, K_disable_unattended_upgrades, K_additional_client_configuration}

NoFile == <<"<no file>">>

\* the content of a certificate file that does not exist (contents are bytes)
NoCert == <<-1>>

----------------------------------------------------------------------------
(* configparser.ConfigParser(): read_string and section lookup, as           *)
(* get_additional_client_configuration and merge_client_config use them     *)
(* (strict, '=' and ':' delimiters, '#' and ';' comments, lower-cased        *)
(* option names, a DEFAULT section whose options every section inherits).   *)

DEFAULT_SECTION == <<"DEFAULT">>
CLIENT == <<"client">>
NoSection == <<>>

\* the lines of a document
RECURSIVE SplitLines(_)
SplitLines(s) ==
    IF \A i \in 1..Len(s) : s[i] # NL THEN <<s>>
    ELSE LET i == CHOOSE j \in 1..Len(s) :
                      s[j] = NL /\ \A m \in 1..(j - 1) : s[m] # NL
         IN  <<SubSeq(s, 1, i - 1)>> \o SplitLines(SubSeq(s, i + 1, Len(s)))

\* SECTCRE, \[(?P<header>.+)\]: the line opens a section
IsHeader(l) == Len(l) >= 3 /\ l[1] = "[" /\ \E j \in 3..Len(l) : l[j] = "]"

HeaderName(l) ==
    LET j == CHOOSE m \in 3..Len(l) :
                 l[m] = "]" /\ \A n \in (m + 1)..Len(l) : l[n] # "]"
    IN  SubSeq(l, 2, j - 1)

IsDelimiter(a) == a \in {"=", ":"}

\* OPTCRE: option, delimiter, value
HasDelimiter(l) == \E i \in 1..Len(l) : IsDelimiter(l[i])

FirstDelimiter(l) ==
    CHOOSE i \in 1..Len(l) :
        IsDelimiter(l[i]) /\ \A m \in 1..(i - 1) : ~IsDelimiter(l[m])

OptionName(l) == Lower(RStrip(SubSeq(l, 1, FirstDelimiter(l) - 1)))
OptionValue(l) == Strip(SubSeq(l, FirstDelimiter(l) + 1, Len(l)))

\* A parsed document keeps the order of the file: sections is a sequence of
\* [name, items], items a sequence of <<option, value>>; defaults holds the
\* items of the DEFAULT section.
HasSection(sections, name) == \E i \in 1..Len(sections) : sections[i].name = name

SectionIndex(sections, name) ==
    CHOOSE i \in 1..Len(sections) : sections[i].name = name

HasItem(items, k) == \E i \in 1..Len(items) : items[i][1] = k

\* items[k] = v: in place when the option is there, at the end otherwise
SetItem(items, k, v) ==
    IF HasItem(items, k)
        THEN [i \in 1..Len(items) |-> IF items[i][1] = k THEN <<k, v>> ELSE items[i]]
        ELSE Append(items, <<k, v>>)

ItemsDict(items) ==
    [k \in {items[i][1] : i \in 1..Len(items)} |->
        items[CHOOSE i \in 1..Len(items) : items[i][1] = k][2]]

\* The parser before the first line.  err is the error raised at once,
\* parsingError the ParsingError that is collected and raised at the end.
ParserStart ==
    [sections |-> <<>>, defaults |-> <<>>, cursect |-> NoSection,
     added |-> {}, parsingError |-> FALSE, err |-> "none"]

\* a line that opens section `name`
ReadHeader(p, name) ==
    IF HasSection(p.sections, name)
        THEN [p EXCEPT !.err = "DuplicateSectionError"]
    ELSE IF name = DEFAULT_SECTION
        THEN [p EXCEPT !.cursect = name]
    ELSE [p EXCEPT !.sections = Append(@, [name |-> name, items |-> <<>>]),
                   !.cursect = name]

\* a line `optname = optval` of the current section
ReadOption(p, optname, optval) ==
    IF optname = <<>>
        THEN [p EXCEPT !.parsingError = TRUE]
    ELSE IF <<p.cursect, optname>> \in p.added
        THEN [p EXCEPT !.err = "DuplicateOptionError"]
    ELSE IF p.cursect = DEFAULT_SECTION
        THEN [p EXCEPT !.defaults = SetItem(@, optname, optval),
                       !.added = @ \cup {<<p.cursect, optname>>}]
    ELSE [p EXCEPT !.sections[SectionIndex(p.sections, p.cursect)].items =
                       SetItem(@, optname, optval),
                   !.added = @ \cup {<<p.cursect, optname>>}]

\* one stripped line of RawConfigParser._read
ReadStripped(p, l) ==
    IF p.err # "none" THEN p
    ELSE IF l = <<>> \/ l[1] \in {"#", ";"} THEN p
    ELSE IF IsHeader(l) THEN ReadHeader(p, HeaderName(l))
    ELSE IF p.cursect = NoSection
        THEN [p EXCEPT !.err = "MissingSectionHeaderError"]
    ELSE IF ~HasDelimiter(l)
        THEN [p EXCEPT !.parsingError = TRUE]
    ELSE ReadOption(p, OptionName(l), OptionValue(l))

RECURSIVE ReadLines(_, _)
ReadLines(p, lines) ==
    IF lines = <<>> THEN p
    ELSE ReadLines(ReadStripped(p, Strip(Head(lines))), Tail(lines))

\* what the parser raises or holds after the last line
ParseResult(p) ==
    IF p.err # "none" THEN [err |-> p.err]
    ELSE IF p.parsingError THEN [err |-> "ParsingError"]
    ELSE [err |-> "none", sections |-> p.sections, defaults |-> p.defaults]

\* config.read_string(raw) on a fresh parser:
\* [err |-> kind] or [err |-> "none", sections, defaults]
read_string(raw) == ParseResult(ReadLines(ParserStart, SplitLines(raw)))

\* dict(config[name]) of a parsed document that has the section
SectionDict(parsed, name) ==
    Update(ItemsDict(parsed.defaults),
           ItemsDict(parsed.sections[SectionIndex(parsed.sections, name)].items))

----------------------------------------------------------------------------
(* get_additional_client_configuration *)

MalformedPrefix == <<"Malformed additional-client-configuration: ">>

\* raise ClientCharmError(f"Malformed additional-client-configuration: {repr(raw)}")
Malformed(raw) ==
    [ok |-> FALSE, err |-> "ClientCharmError", msg |-> MalformedPrefix \o Repr(raw)]

StrValues(d) == [k \in DOMAIN d |-> Str(d[k])]

\* the two try blocks, with what read_string gave for raw
AdditionalFrom(raw, parsed) ==
    IF parsed.err = "MissingSectionHeaderError" THEN Malformed(raw)
    ELSE IF parsed.err # "none" THEN [ok |-> FALSE, err |-> parsed.err, msg |-> <<>>]
    ELSE IF ~HasSection(parsed.sections, CLIENT) THEN Malformed(raw)
    ELSE [ok |-> TRUE, val |-> StrValues(SectionDict(parsed, CLIENT))]

\* get_additional_client_configuration without `if not raw`: an empty value
\* goes to the parser
get_additional_client_configuration_parsing_empty(juju_config) ==
    IF K_additional_client_configuration \notin DOMAIN juju_config
        THEN [ok |-> TRUE, val |-> EmptyDict]
    ELSE AdditionalFrom(juju_config[K_additional_client_configuration].str,
                        read_string(juju_config[K_additional_client_configuration].str))

\* [ok |-> TRUE, val |-> dict of str] or [ok |-> FALSE, err |-> kind, msg |-> str]
get_additional_client_configuration(juju_config) ==
    IF K_additional_client_configuration \notin DOMAIN juju_config
           \/ ~Truthy(juju_config[K_additional_client_configuration])
        THEN [ok |-> TRUE, val |-> EmptyDict]
    ELSE AdditionalFrom(juju_config[K_additional_client_configuration].str,
                        read_string(juju_config[K_additional_client_configuration].str))

----------------------------------------------------------------------------
(* Certificates: write_certificate and parse_ssl_arg *)

B64Digits ==
    <<"A", "B", "C", "D", "E", "F", "G", "H", "I", "J", "K", "L", "M",
      "N", "O", "P", "Q", "R", "S", "T", "U", "V", "W", "X", "Y", "Z",
      "a", "b", "c", "d", "e", "f", "g", "h", "i", "j", "k", "l", "m",
      "n", "o", "p", "q", "r", "s", "t", "u", "v", "w", "x", "y", "z",
      "0", "1", "2", "3", "4", "5", "6", "7", "8", "9", "+", "/">>

IsB64Digit(c) == \E i \in 1..Len(B64Digits) : B64Digits[i] = c

B64Value(c) == (CHOOSE i \in 1..Len(B64Digits) : B64Digits[i] = c) - 1

\* the bytes of a sequence of 6-bit values
RECURSIVE B64Bytes(_)
B64Bytes(v) ==
    IF Len(v) < 2 THEN <<>>
    ELSE IF Len(v) = 2 THEN <<v[1] * 4 + v[2] \div 16>>
    ELSE IF Len(v) = 3
        THEN <<v[1] * 4 + v[2] \div 16, (v[2] % 16) * 16 + v[3] \div 4>>
    ELSE <<v[1] * 4 + v[2] \div 16, (v[2] % 16) * 16 + v[3] \div 4,
           (v[3] % 4) * 64 + v[4]>> \o B64Bytes(SubSeq(v, 5, Len(v)))

\* the decoding of `digits` followed by `pads` padding characters
B64Decoded(digits, pads) ==
    IF Len(digits) % 4 = 1 \/ (Len(digits) % 4 = 2 /\ pads < 2)
           \/ (Len(digits) % 4 = 3 /\ pads < 1)
        THEN [err |-> "binascii.Error"]
        ELSE [err |-> "none",
              bytes |-> B64Bytes([i \in 1..Len(digits) |-> B64Value(digits[i])])]

\* base64.b64decode(s) of digits followed by padding (other characters are
\* discarded): [err |-> "binascii.Error"] or [err |-> "none", bytes |-> ...]
b64decode(s) ==
    B64Decoded(SelectSeq(s, IsB64Digit), Len(SelectSeq(s, LAMBDA c : c = "=")))

\* The file system as parse_ssl_arg sees it: files, the paths of the other
\* regular files; cert, the content of CERT_FILE; writable, whether
\* open(CERT_FILE, "wb") succeeds.
isfile(path, fs) == path \in fs.files \/ (path = CERT_FILE /\ fs.cert # NoCert)

\* file.write(decoded) into the file that open has truncated
WriteDecoded(d) ==
    IF d.err # "none" THEN [err |-> d.err, cert |-> <<>>]
    ELSE [err |-> "none", cert |-> d.bytes]

\* write_certificate(certificate, CERT_FILE): open truncates the file before
\* the certificate is decoded.  [err, cert |-> content of CERT_FILE afterwards]
write_certificate(certificate, fs) ==
    IF ~fs.writable THEN [err |-> "OSError", cert |-> fs.cert]
    ELSE WriteDecoded(b64decode(certificate))

CertificateMissing == <<"Certificate does not exist!">>

\* AfterWrite without `value = CERT_FILE`: the supplied text is returned
AfterWrite_keeps_value(value, w) ==
    IF w.err = "none"
        THEN [err |-> "none", msg |-> <<>>, val |-> value, cert |-> w.cert,
              critical |-> 0]
    ELSE IF w.err = "OSError"
        THEN [err |-> "ClientCharmError", msg |-> CertificateMissing,
              val |-> value, cert |-> w.cert, critical |-> 1]
    ELSE [err |-> w.err, msg |-> <<>>, val |-> value, cert |-> w.cert,
          critical |-> 0]

\* the try block of parse_ssl_arg, with what write_certificate gave
AfterWrite(value, w) ==
    IF w.err = "none"
        THEN [err |-> "none", msg |-> <<>>, val |-> CERT_FILE, cert |-> w.cert,
              critical |-> 0]
    ELSE IF w.err = "OSError"
        THEN [err |-> "ClientCharmError", msg |-> CertificateMissing,
              val |-> value, cert |-> w.cert, critical |-> 1]
    ELSE [err |-> w.err, msg |-> <<>>, val |-> value, cert |-> w.cert,
          critical |-> 0]

\* [err, msg, val |-> the path, cert, critical |-> records logged]
parse_ssl_arg(value, fs) ==
    IF isfile(value, fs)
        THEN [err |-> "none", msg |-> <<>>, val |-> value, cert |-> fs.cert,
              critical |-> 0]
    ELSE AfterWrite(value, write_certificate(value, fs))

----------------------------------------------------------------------------
(* create_client_config *)

K_computer_title == <<"computer", "_", "title">>
K_ssl_ca == <<"ssl", "_", "ca">>
K_ssl_public_key == <<"ssl", "_", "public", "_", "key">>

\* key.replace("-", "_")
RenameKey(key) == Replace(key, "-", "_")

\* RenamedConfig without its filter: the charm-only keys are renamed and kept
RenamedConfig_unfiltered(juju_config) ==
    [k \in {RenameKey(key) : key \in DOMAIN juju_config} |->
        juju_config[CHOOSE key \in DOMAIN juju_config : RenameKey(key) = k]]

\* {key.replace("-", "_"): value for key, value in juju_config.items()
\*  if key not in CHARM_ONLY_CONFIGS}
RenamedConfig(juju_config) ==
    [k \in {RenameKey(key) : key \in DOMAIN juju_config \ CHARM_ONLY_CONFIGS} |->
        juju_config[CHOOSE key \in DOMAIN juju_config \ CHARM_ONLY_CONFIGS :
                        RenameKey(key) = k]]

\* SetDefault as a plain assignment: the default replaces what is there
SetDefault_assigning(client_config, key, value) ==
    Update(client_config, [k \in {key} |-> value])

\* client_config.setdefault(key, value)
SetDefault(client_config, key, value) ==
    IF key \in DOMAIN client_config THEN client_config
    ELSE Update(client_config, [k \in {key} |-> value])

\* client_config.get(key) is truthy
GetTruthy(client_config, key) ==
    key \in DOMAIN client_config /\ Truthy(client_config[key])

\* CertificateKey with the branches swapped: the deprecated key goes first
CertificateKey_deprecated_first(client_config) ==
    IF GetTruthy(client_config, K_ssl_public_key) THEN K_ssl_public_key
    ELSE IF GetTruthy(client_config, K_ssl_ca) THEN K_ssl_ca
    ELSE <<>>

\* the key the if/elif of the certificate step picks, <<>> when neither
CertificateKey(client_config) ==
    IF GetTruthy(client_config, K_ssl_ca) THEN K_ssl_ca
    ELSE IF GetTruthy(client_config, K_ssl_public_key) THEN K_ssl_public_key
    ELSE <<>>

\* client_config[key] = parse_ssl_arg(ssl_key), with what parse_ssl_arg gave.
\* resolved: the keys parse_ssl_arg was called for; warned: whether the
\* deprecation warning was logged.
Resolved(client_config, key, r) ==
    [ok |-> r.err = "none", err |-> r.err, msg |-> r.msg,
     val |-> IF r.err = "none" THEN [client_config EXCEPT ![key] = Str(r.val)]
             ELSE client_config,
     cert |-> r.cert, resolved |-> {key},
     warned |-> r.err = "none" /\ key = K_ssl_public_key,
     critical |-> r.critical]

ResolveKey(client_config, fs, key) ==
    IF key = <<>>
        THEN [ok |-> TRUE, err |-> "none", msg |-> <<>>, val |-> client_config,
              cert |-> fs.cert, resolved |-> {}, warned |-> FALSE, critical |-> 0]
    ELSE Resolved(client_config, key, parse_ssl_arg(PyStr(client_config[key]), fs))

\* the certificate step of create_client_config
ResolveCertificates(client_config, fs) ==
    ResolveKey(client_config, fs, CertificateKey(client_config))

\* CreateFrom with the update turned round: the orchestrator's values win
CreateFrom_explicit_first(juju_config, default_computer_title, fs, additional_configuration) ==
    IF ~additional_configuration.ok
        THEN [ok |-> FALSE, err |-> additional_configuration.err,
              msg |-> additional_configuration.msg, val |-> EmptyDict,
              cert |-> fs.cert, resolved |-> {}, warned |-> FALSE, critical |-> 0]
    ELSE ResolveCertificates(
             SetDefault(Update(additional_configuration.val,
                               RenamedConfig(juju_config)),
                        K_computer_title, Str(default_computer_title)),
             fs)

\* create_client_config from the update with the additional configuration on
CreateFrom(juju_config, default_computer_title, fs, additional_configuration) ==
    IF ~additional_configuration.ok
        THEN [ok |-> FALSE, err |-> additional_configuration.err,
              msg |-> additional_configuration.msg, val |-> EmptyDict,
              cert |-> fs.cert, resolved |-> {}, warned |-> FALSE, critical |-> 0]
    ELSE ResolveCertificates(
             SetDefault(Update(RenamedConfig(juju_config),
                               additional_configuration.val),
                        K_computer_title, Str(default_computer_title)),
             fs)

\* [ok, err, msg, val |-> the client config, cert |-> CERT_FILE afterwards,
\*  resolved, warned, critical]
create_client_config(juju_config, default_computer_title, fs) ==
    CreateFrom(juju_config, default_computer_title, fs,
               get_additional_client_configuration(juju_config))

----------------------------------------------------------------------------
(* merge_client_config *)

\* the items of a dict, in some fixed order
RECURSIVE DictItems(_)
DictItems(d) ==
    IF DOMAIN d = {} THEN <<>>
    ELSE LET k == CHOOSE x \in DOMAIN d : TRUE IN
         <<<<k, d[k]>>>> \o DictItems([x \in DOMAIN d \ {k} |-> d[x]])

\* config[section].update(pairs): each option name is lower-cased
RECURSIVE SetItems(_, _)
SetItems(items, pairs) ==
    IF pairs = <<>> THEN items
    ELSE SetItems(SetItem(items, Lower(Head(pairs)[1]), Head(pairs)[2]), Tail(pairs))

\* the lines config.write gives the items of a section
RECURSIVE WriteItems(_)
WriteItems(items) ==
    IF items = <<>> THEN <<>>
    ELSE Head(items)[1] \o <<BLANK, "=", BLANK>> \o Head(items)[2] \o <<NL>>
             \o WriteItems(Tail(items))

WriteSection(name, items) == <<"[">> \o name \o <<"]", NL>> \o WriteItems(items) \o <<NL>>

RECURSIVE WriteSections(_)
WriteSections(sections) ==
    IF sections = <<>> THEN <<>>
    ELSE WriteSection(Head(sections).name, Head(sections).items)
             \o WriteSections(Tail(sections))

\* config.write(configfile)
WriteConfig(parsed) ==
    (IF parsed.defaults = <<>> THEN <<>>
     ELSE WriteSection(DEFAULT_SECTION, parsed.defaults))
        \o WriteSections(parsed.sections)

\* config.read(conf_file): a file that cannot be opened is skipped
ReadFile(file) ==
    IF file = NoFile THEN [err |-> "none", sections |-> <<>>, defaults |-> <<>>]
    ELSE read_string(file)

\* {k: str(v) for k, v in client_config.items() if v}
TruthyItems(client_config) ==
    LET kept == {k \in DOMAIN client_config : Truthy(client_config[k])} IN
    DictItems([k \in kept |-> PyStr(client_config[k])])

\* value.replace('%%', ''), from the left
RECURSIVE RemoveEscaped(_)
RemoveEscaped(value) ==
    IF Len(value) < 2 THEN value
    ELSE IF value[1] = PERCENT /\ value[2] = PERCENT
        THEN RemoveEscaped(SubSeq(value, 3, Len(value)))
    ELSE <<Head(value)>> \o RemoveEscaped(Tail(value))

\* the end of a reference %(name)s that starts value, 0 when none does
ReferenceEnd(value) ==
    IF Len(value) >= 5 /\ value[1] = PERCENT /\ value[2] = "("
           /\ value[3] # ")"
           /\ \E j \in 4..(Len(value) - 1) : value[j] = ")" /\ value[j + 1] = "s"
        THEN 1 + (CHOOSE j \in 4..(Len(value) - 1) :
                      /\ value[j] = ")" /\ value[j + 1] = "s"
                      /\ \A m \in 4..(j - 1) : value[m] # ")")
        ELSE 0

\* _KEYCRE.sub('', value)
RECURSIVE RemoveReferences(_)
RemoveReferences(value) ==
    IF value = <<>> THEN <<>>
    ELSE IF ReferenceEnd(value) > 0
        THEN RemoveReferences(SubSeq(value, ReferenceEnd(value) + 1, Len(value)))
    ELSE <<Head(value)>> \o RemoveReferences(Tail(value))

\* BasicInterpolation.before_set accepts the value (it raises ValueError
\* when a '%' is left)
before_set(value) ==
    \A i \in 1..Len(RemoveReferences(RemoveEscaped(value))) :
        RemoveReferences(RemoveEscaped(value))[i] # PERCENT

\* MergeInto that writes the new values as the whole client section
MergeInto_replacing(file, parsed, client_config) ==
    IF parsed.err # "none" THEN [err |-> parsed.err, file |-> file]
    ELSE IF ~HasSection(parsed.sections, CLIENT) THEN [err |-> "KeyError", file |-> file]
    ELSE [err |-> "none",
          file |-> WriteConfig(
              [parsed EXCEPT !.sections[SectionIndex(parsed.sections, CLIENT)].items =
                                 SetItems(<<>>, TruthyItems(client_config))])]

\* merge_client_config from config["client"] on, with what config.read gave
MergeInto(file, parsed, client_config) ==
    IF parsed.err # "none" THEN [err |-> parsed.err, file |-> file]
    ELSE IF ~HasSection(parsed.sections, CLIENT) THEN [err |-> "KeyError", file |-> file]
    ELSE IF \E i \in 1..Len(TruthyItems(client_config)) :
                ~before_set(TruthyItems(client_config)[i][2])
        THEN [err |-> "ValueError", file |-> file]
    ELSE [err |-> "none",
          file |-> WriteConfig(
              [parsed EXCEPT !.sections[SectionIndex(parsed.sections, CLIENT)].items =
                                 SetItems(@, TruthyItems(client_config))])]

\* [err, file |-> content of conf_file afterwards]
merge_client_config(file, client_config) ==
    MergeInto(file, ReadFile(file), client_config)

----------------------------------------------------------------------------
(* process_helper *)

FAILURE == <<"F", "a", "i", "l", "u", "r", "e">>

\* What the external command does: spawned (Popen returns), returncode,
\* output (stdout and stderr, one character an atom).
Spawned(returncode, output) ==
    [spawned |-> TRUE, returncode |-> returncode, output |-> output]

NotSpawned == [spawned |-> FALSE, returncode |-> 0, output |-> <<>>]

\* log_error(text): one critical record unless the text is empty
LogError(text) == IF text # <<>> THEN 1 ELSE 0

\* process_helper without the test of the output
process_helper_ignoring_output(outcome, hide_errors) ==
    IF ~outcome.spawned THEN [ok |-> FALSE, critical |-> 1]
    ELSE IF outcome.returncode # 0
        THEN [ok |-> FALSE,
              critical |-> IF hide_errors THEN 0 ELSE 1 + LogError(outcome.output)]
    ELSE [ok |-> TRUE, critical |-> 0]

\* [ok |-> the return value, critical |-> the critical records logged]
process_helper(outcome, hide_errors) ==
    IF ~outcome.spawned THEN [ok |-> FALSE, critical |-> 1]
    ELSE IF outcome.returncode # 0 \/ Contains(outcome.output, FAILURE)
        THEN [ok |-> FALSE,
              critical |-> IF hide_errors THEN 0 ELSE 1 + LogError(outcome.output)]
    ELSE [ok |-> TRUE, critical |-> 0]

----------------------------------------------------------------------------
(* The charm: statuses, steps, and the methods the handlers share *)

Maintenance(message) == [kind |-> "Maintenance", msg |-> message]
Active(message) == [kind |-> "Active", msg |-> message]
Blocked(message) == [kind |-> "Blocked", msg |-> message]

\* one entry of trace: a step of the handler and whether it succeeded
Step(op, ok) == [op |-> op, ok |-> ok]

NotCalled == [called |-> FALSE]

HOSTNAME == <<"host1">>

\* str.upper(), on the atoms of the proxy variables
Upper(s) ==
    [i \in 1..Len(s) |->
        CASE s[i] = "http" -> "HTTP"
          [] s[i] = "https" -> "HTTPS"
          [] s[i] = "proxy" -> "PROXY"
          [] OTHER -> s[i]]

HTTP_PROXY == <<"http", "_", "proxy">>
HTTPS_PROXY == <<"https", "_", "proxy">>

\* SetProxy with the branches swapped: the model's proxy goes before the
\* charm's own setting
SetProxy_juju_first(juju_config, env, proxy_var) ==
    LET juju_proxy_var == <<"JUJU", "_", "CHARM", "_">> \o Upper(proxy_var)
        config_key == Replace(proxy_var, "_", "-")
    IN  IF juju_proxy_var \in DOMAIN env
            THEN Update(env, [k \in {proxy_var} |-> env[juju_proxy_var]])
        ELSE IF config_key \in DOMAIN juju_config
            THEN Update(env, [k \in {proxy_var} |-> juju_config[config_key].str])
        ELSE env

\* one round of the loop of add_ppa over the proxy variables
SetProxy(juju_config, env, proxy_var) ==
    LET juju_proxy_var == <<"JUJU", "_", "CHARM", "_">> \o Upper(proxy_var)
        config_key == Replace(proxy_var, "_", "-")
    IN  IF config_key \in DOMAIN juju_config
            THEN Update(env, [k \in {proxy_var} |-> juju_config[config_key].str])
        ELSE IF juju_proxy_var \in DOMAIN env
            THEN Update(env, [k \in {proxy_var} |-> env[juju_proxy_var]])
        ELSE env

add_apt_repository_env(juju_config, env) ==
    SetProxy(juju_config, SetProxy(juju_config, env, HTTP_PROXY), HTTPS_PROXY)

\* What a method hands back to its caller: the unit status, the steps it
\* took, the error it raised ("none" when it returned) with its message, and
\* the critical records it logged.
Ran(st, steps, err, msg, crit) ==
    [status |-> st, trace |-> steps, err |-> err, msg |-> msg, critical |-> crit]

\* raise ClientCharmError("Failed to add PPA!") unless the command succeeded
AddedPpa(p) ==
    Ran(Maintenance(<<"Adding client PPA..">>),
        <<Step("add-apt-repository", p.ok)>>,
        IF p.ok THEN "none" ELSE "ClientCharmError",
        IF p.ok THEN <<>> ELSE <<"Failed to add PPA!">>,
        p.critical)

HasPpa(juju_config) == K_ppa \in DOMAIN juju_config /\ Truthy(juju_config[K_ppa])

\* add_ppa, with the unit status st it starts from; outcome is what
\* add-apt-repository does
add_ppa(juju_config, st, outcome) ==
    IF ~HasPpa(juju_config) THEN Ran(st, <<>>, "none", <<>>, 0)
    ELSE AddedPpa(process_helper(outcome, FALSE))

\* the environment add_ppa hands to add-apt-repository, if it runs it
PpaEnv(juju_config, env) ==
    IF ~HasPpa(juju_config) THEN EmptyDict
    ELSE add_apt_repository_env(juju_config, env)

\* install_landscape_client; added: whether apt.add_package succeeds
install_landscape_client(added) ==
    Ran(Maintenance(<<"Installing landscape client..">>),
        <<Step("apt.add_package", added)>>,
        IF added THEN "none" ELSE "ClientCharmError",
        IF added THEN <<>> ELSE <<"Failed to install client!">>,
        IF added THEN 0 ELSE 1)

\* merge_client_config(CLIENT_CONF_FILE, client_config) gave m
Merged(st, cc, m) ==
    [run |-> Ran(st, <<Step("create_client_config", TRUE),
                       Step("merge_client_config", m.err = "none")>>,
                 m.err, <<>>, cc.critical),
     cc |-> cc, file |-> m.file]

\* SetFrom that goes on to the merge after create_client_config has raised
SetFrom_merging_anyway(st, file, cc) ==
    IF ~cc.ok
        THEN [run |-> Ran(st, <<Step("create_client_config", FALSE)>>,
                          cc.err, cc.msg, cc.critical),
              cc |-> cc, file |-> merge_client_config(file, EmptyDict).file]
    ELSE Merged(st, cc, merge_client_config(file, cc.val))

\* set_client_config from log_info on, with what create_client_config gave
SetFrom(st, file, cc) ==
    IF ~cc.ok
        THEN [run |-> Ran(st, <<Step("create_client_config", FALSE)>>,
                          cc.err, cc.msg, cc.critical),
              cc |-> cc, file |-> file]
    ELSE Merged(st, cc, merge_client_config(file, cc.val))

\* set_client_config: [run, cc |-> what create_client_config gave,
\*                     file |-> CLIENT_CONF_FILE afterwards]
set_client_config(juju_config, st, file, fs) ==
    SetFrom(st, file, create_client_config(juju_config, HOSTNAME, fs))

\* Registered without the raise: a failed registration returns
Registered_swallowing(st, p) ==
    IF p.ok
        THEN Ran(Active(<<"Client registered!">>), <<Step("register", TRUE)>>,
                 "none", <<>>, p.critical)
        ELSE Ran(st, <<Step("register", FALSE)>>, "none", <<>>, p.critical)

\* the two branches of send_registration
Registered(st, p) ==
    IF p.ok
        THEN Ran(Active(<<"Client registered!">>), <<Step("register", TRUE)>>,
                 "none", <<>>, p.critical)
        ELSE Ran(st, <<Step("register", FALSE)>>,
                 "ClientCharmError", <<"Registration failed!">>, p.critical)

\* send_registration; outcome is what landscape-config --silent does
send_registration(st, outcome) == Registered(st, process_helper(outcome, FALSE))

\* r, after the steps and records of the method that ran before it
After(first, r) ==
    Ran(r.status, first.trace \o r.trace, r.err, r.msg, first.critical + r.critical)

\* the restart branch: the result of the restart is dropped
Restarted(p) ==
    Ran(Active(<<"Client config updated!">>), <<Step("restart", p.ok)>>,
        "none", <<>>, p.critical)

\* Probed, with the probe ignored: the client is registered again every time
Probed_ignoring_probe(st, is_registered, follow) ==
    After(Ran(st, <<Step("is-registered", is_registered.ok)>>, "none", <<>>,
              is_registered.critical),
          send_registration(st, follow))

\* the if/else of run_landscape_client, with what is_registered() gave
Probed(st, is_registered, follow) ==
    After(Ran(st, <<Step("is-registered", is_registered.ok)>>, "none", <<>>,
              is_registered.critical),
          IF is_registered.ok
              THEN Restarted(process_helper(follow, FALSE))
              ELSE send_registration(st, follow))

\* run_landscape_client that goes on to the probe when set_client_config
\* has raised
run_landscape_client_probes_anyway(s, probe, follow) ==
    After(Ran(s.run.status, s.run.trace, "none", <<>>, s.run.critical),
          Probed(s.run.status, process_helper(probe, TRUE), follow))

\* run_landscape_client from the call of set_client_config on, which gave s;
\* probe is what landscape-config --is-registered does, follow what the
\* command after it does
run_landscape_client(s, probe, follow) ==
    IF s.run.err # "none" THEN s.run
    ELSE After(s.run, Probed(s.run.status, process_helper(probe, TRUE), follow))

\* the status run_landscape_client sets before it calls set_client_config
Configuring == Maintenance(<<"Configuring landscape client..">>)

----------------------------------------------------------------------------
(* The inputs: configurations, documents, certificates, command outcomes *)

\* the orchestrator's names of the options, hyphen-separated
J ==
    [account_name |-> <<"account", "-", "name">>,
     computer_title |-> <<"computer", "-", "title">>,
     ssl_ca |-> <<"ssl", "-", "ca">>,
     ssl_public_key |-> <<"ssl", "-", "public", "-", "key">>,
     http_proxy |-> <<"http", "-", "proxy">>,
     https_proxy |-> <<"https", "-", "proxy">>]

\* additional-client-configuration documents: those of the tests, and
\* others the parser treats differently
Doc ==
    [client |-> <<"[", "client", "]">>,
     ping |-> <<"[", "client", "]", NL, "ping", "_", "interval", BLANK, "=", BLANK, "60">>,
     account |-> <<"[", "client", "]", NL, "account", "_", "name", BLANK, "=", BLANK,
                   "myadditionalaccount">>,
     title |-> <<"[", "client", "]", NL, "computer", "_", "title", "=", "t2">>,
     ppa |-> <<"[", "client", "]", NL, "PPA", ":", BLANK, "x">>,
     default |-> <<"[", "DEFAULT", "]", NL, "ppa", "=", "x", NL, "[", "client", "]">>,
     naked |-> <<"nakedkey">>,
     global |-> <<"globalkey", BLANK, "=", BLANK, "value">>,
     other |-> <<"[", "notclientsection", "]">>,
     capital |-> <<"[", "Client", "]", NL, "k", "=", "v">>,
     comment |-> <<"#", BLANK, "nothing">>,
     dup_section |-> <<"[", "other", "]", NL, "[", "other", "]">>,
     bad_line |-> <<"[", "client", "]", NL, "nakedkey">>,
     dup_key |-> <<"[", "client", "]", NL, "k", "=", "v", NL, "k", "=", "w">>]

AdditionalDocs ==
    {<<>>, Doc.client, Doc.ping, Doc.account, Doc.title, Doc.ppa, Doc.default, Doc.naked,
     Doc.global, Doc.other, Doc.capital, Doc.comment, Doc.dup_section, Doc.bad_line,
     Doc.dup_key}

\* base64 of b"hi", the same without its padding, and a path
Cert ==
    [b64 |-> <<"a", "G", "k", "=">>,
     bad |-> <<"a", "G", "k">>,
     path |-> <<"/", "c", "a">>]

\* one option of the orchestrator's configuration and a value for it
Options ==
    {<<K_ppa, Str(<<"ppa:landscape">>)>>,
     <<K_disable_unattended_upgrades, Bool(TRUE)>>,
     <<K_disable_unattended_upgrades, Bool(FALSE)>>,
     <<J.account_name, Str(<<"accountname">>)>>,
     <<J.account_name, Str(<<>>)>>,
     <<J.computer_title, Str(<<"hello1">>)>>,
     <<J.computer_title, Str(<<>>)>>,
     <<J.ssl_ca, Str(<<>>)>>,
     <<J.ssl_ca, Str(Cert.b64)>>,
     <<J.ssl_ca, Str(Cert.bad)>>,
     <<J.ssl_ca, Str(Cert.path)>>,
     <<J.ssl_public_key, Str(Cert.b64)>>,
     <<J.ssl_public_key, Str(Cert.bad)>>,
     <<J.http_proxy, Str(<<"http://override-proxy.test:3128">>)>>}
        \cup {<<K_additional_client_configuration, Str(d)>> : d \in AdditionalDocs}

\* at most this many options are set in a configuration
MaxSetOptions == 2

MakeConfig(opts) ==
    [k \in {o[1] : o \in opts} |-> (CHOOSE o \in opts : o[1] = k)[2]]

RECURSIVE OptionSets(_)
OptionSets(n) ==
    IF n = 0 THEN {{}}
    ELSE LET smaller == OptionSets(n - 1) IN
         smaller \cup {s \cup {o} : s \in smaller, o \in Options}

Configs ==
    {MakeConfig(opts) :
        opts \in {s \in OptionSets(MaxSetOptions) :
                     \A a \in s, b \in s : a[1] = b[1] => a = b}}

\* the configurations the triggers are delivered with
Cfg ==
    [ppa |-> MakeConfig({<<K_ppa, Str(<<"ppa:landscape">>)>>}),
     account |-> MakeConfig({<<J.account_name, Str(<<"accountname">>)>>,
                             <<K_disable_unattended_upgrades, Bool(TRUE)>>}),
     unset |-> MakeConfig({<<J.account_name, Str(<<>>)>>,
                           <<K_disable_unattended_upgrades, Bool(FALSE)>>}),
     malformed |-> MakeConfig({<<K_additional_client_configuration, Str(Doc.other)>>}),
     bad_line |-> MakeConfig({<<K_additional_client_configuration,
                                Str(Doc.bad_line)>>}),
     cert |-> MakeConfig({<<J.ssl_ca, Str(Cert.b64)>>})]

LifecycleConfigs ==
    {Cfg.ppa, Cfg.account, Cfg.unset, Cfg.malformed, Cfg.bad_line, Cfg.cert}

Environs ==
    {EmptyDict,
     [k \in {<<"JUJU", "_", "CHARM", "_", "HTTP", "_", "PROXY">>} |->
         <<"http://proxy.test:3128">>]}

\* the file of test_update_config
F_onward ==
    <<"[", "client", "]", NL, "account", "_", "name", BLANK, "=", BLANK, "onward">>

\* CLIENT_CONF_FILE before the charm first writes it
InitialConfFiles == {NoFile, Doc.client, F_onward}

ProcOutcomes ==
    {NotSpawned, Spawned(0, <<"O", "K">>), Spawned(1, <<>>), Spawned(0, FAILURE)}

\* the outcomes of a command that is run only when `needed`
OutcomesIf(needed) == IF needed THEN ProcOutcomes ELSE {NotSpawned}

HasCertificate(juju_config) ==
    \E k \in {J.ssl_ca, J.ssl_public_key} : k \in DOMAIN juju_config

----------------------------------------------------------------------------
(* The trigger handlers *)

\* except ClientCharmError as exc: self.unit.status = BlockedStatus(str(exc))
CatchClientCharmError(r) ==
    IF r.err = "ClientCharmError"
        THEN Ran(Blocked(r.msg), r.trace, "none", <<>>, r.critical)
        ELSE r

\* the handler returned or raised: what it leaves behind
Leave(name, r) ==
    /\ trigger' = name
    /\ status' = r.status
    /\ trace' = r.trace
    /\ raised' = r.err
    /\ critical' = r.critical

Init ==
    /\ config \in LifecycleConfigs
    /\ environ \in Environs
    /\ status = Maintenance(<<>>)
    /\ confFile \in InitialConfFiles
    /\ certFile = NoCert
    /\ aptOverride = FALSE
    /\ installed \in BOOLEAN
    /\ trigger = "none"
    /\ trace = <<>>
    /\ ppaEnv = EmptyDict
    /\ raised = "none"
    /\ ccOut = NotCalled
    /\ critical = 0
    /\ eventFailed = FALSE
    /\ invocation = NotCalled

\* on_install_run that goes on to register the client it has installed
on_install_run_registering(a, added) ==
    IF a.err # "none" THEN CatchClientCharmError(a)
    ELSE CatchClientCharmError(
             After(After(a, install_landscape_client(added)),
                   send_registration(Maintenance(<<"Installing landscape client..">>),
                                     Spawned(0, <<>>))))

\* _on_install, with what add_ppa gave
on_install_run(a, added) ==
    IF a.err # "none" THEN CatchClientCharmError(a)
    ELSE CatchClientCharmError(After(a, install_landscape_client(added)))

Installed(r) ==
    r.trace # <<>> /\ r.trace[Len(r.trace)] = Step("apt.add_package", TRUE)

InstallLeaves(r) ==
    /\ Leave("install", r)
    /\ installed' = (installed \/ Installed(r))

on_install ==
    /\ \E ppa \in OutcomesIf(HasPpa(config)), added \in BOOLEAN :
           InstallLeaves(on_install_run(add_ppa(config, status, ppa), added))
    /\ ppaEnv' = PpaEnv(config, environ)
    /\ ccOut' = NotCalled
    /\ eventFailed' = FALSE
    /\ UNCHANGED <<config, environ, confFile, certFile, aptOverride, invocation>>

\* SetAptOverride without the elif branch: the file is never removed
SetAptOverride_keeping(juju_config, exists) ==
    IF K_disable_unattended_upgrades \in DOMAIN juju_config
           /\ Truthy(juju_config[K_disable_unattended_upgrades])
        THEN TRUE
    ELSE exists

\* the APT override file after the first statement of _on_config_changed
SetAptOverride(juju_config, exists) ==
    IF K_disable_unattended_upgrades \in DOMAIN juju_config
           /\ Truthy(juju_config[K_disable_unattended_upgrades])
        THEN TRUE
    ELSE IF exists THEN FALSE
    ELSE exists

\* the try block of _on_config_changed: a is what add_ppa gave, s what
\* set_client_config gives once run_landscape_client calls it
on_config_changed_run(a, s, probe, follow) ==
    IF a.err # "none" THEN CatchClientCharmError(a)
    ELSE CatchClientCharmError(After(a, run_landscape_client(s, probe, follow)))

\* the files after the try block
ConfigChangedFiles(a, s, fs) ==
    IF a.err # "none"
        THEN /\ ccOut' = NotCalled
             /\ UNCHANGED <<confFile, certFile>>
        ELSE /\ ccOut' = [called |-> TRUE, fs |-> fs, file |-> confFile, out |-> s.cc]
             /\ confFile' = s.file
             /\ certFile' = s.cc.cert

ConfigChangedLeaves(a, s, fs) ==
    /\ ConfigChangedFiles(a, s, fs)
    /\ \E probe \in ProcOutcomes, follow \in ProcOutcomes :
           Leave("config-changed", on_config_changed_run(a, s, probe, follow))

ConfigChangedWith(c, fs) ==
    \E ppa \in OutcomesIf(HasPpa(c)) :
        ConfigChangedLeaves(add_ppa(c, status, ppa),
                            set_client_config(c, Configuring, confFile, fs), fs)

on_config_changed ==
    \E c \in LifecycleConfigs :
        /\ config' = c
        /\ aptOverride' = SetAptOverride(c, aptOverride)
        /\ eventFailed' = FALSE
        /\ UNCHANGED <<environ, installed, invocation>>
        /\ IF ~installed
              THEN /\ Leave("config-changed", Ran(status, <<>>, "none", <<>>, 1))
                   /\ ppaEnv' = EmptyDict
                   /\ ccOut' = NotCalled
                   /\ UNCHANGED <<confFile, certFile>>
              ELSE /\ ppaEnv' = PpaEnv(c, environ)
                   /\ \E files \in IF HasCertificate(c) THEN {{}, {Cert.path}} ELSE {{}},
                         writable \in IF HasCertificate(c) THEN BOOLEAN ELSE {TRUE} :
                          ConfigChangedWith(c, [files |-> files, cert |-> certFile,
                                                writable |-> writable])

\* the call of process_helper in _on_relation_departed gave p
Disabled(p) ==
    Ran(Maintenance(<<"Disabling landscape client..">>),
        <<Step("disable", p.ok)>>, "none", <<>>, p.critical)

\* _on_relation_departed
on_relation_departed ==
    /\ \E disable \in ProcOutcomes :
           Leave("relation-departed", Disabled(process_helper(disable, FALSE)))
    /\ ppaEnv' = EmptyDict
    /\ ccOut' = NotCalled
    /\ eventFailed' = FALSE
    /\ UNCHANGED <<config, environ, confFile, certFile, aptOverride, installed, invocation>>

\* Rejected, with the status set as the except branches of the actions do
Rejected_blocking(st) ==
    Ran(Blocked(<<"Please wait until charm is ready.">>), <<>>, "none", <<>>, 1)

\* the rejection of an action while the unit is in maintenance
Rejected(st) == Ran(st, <<>>, "none", <<>>, 1)

\* _upgrade after the maintenance check, with what add_ppa gave: updated,
\* whether apt.update() succeeds; upgraded, whether the package calls of the
\* try block do
upgrade_run(a, updated, upgraded) ==
    IF a.err # "none" THEN a
    ELSE IF ~updated
        THEN After(a, Ran(a.status, <<Step("apt.update", FALSE)>>,
                          "CalledProcessError", <<>>, 0))
    ELSE IF ~upgraded
        THEN After(a, Ran(Blocked(<<"package error">>),
                          <<Step("apt.update", TRUE), Step("pkg.ensure", FALSE)>>,
                          "none", <<>>, 2))
    ELSE After(a, Ran(a.status,
                      <<Step("apt.update", TRUE), Step("pkg.ensure", TRUE)>>,
                      "none", <<>>, 0))

LastStep(r) == r.trace[Len(r.trace)]

UpgradeLeaves(r) ==
    /\ Leave("upgrade", r)
    /\ eventFailed' = (r.trace # <<>> /\ LastStep(r) = Step("pkg.ensure", FALSE))
    /\ installed' = (installed \/ (r.trace # <<>>
                                     /\ LastStep(r) = Step("pkg.ensure", TRUE)))

upgrade ==
    /\ ccOut' = NotCalled
    /\ UNCHANGED <<config, environ, confFile, certFile, aptOverride, invocation>>
    /\ IF status.kind = "Maintenance"
          THEN /\ Leave("upgrade", Rejected(status))
               /\ eventFailed' = TRUE
               /\ ppaEnv' = EmptyDict
               /\ UNCHANGED installed
          ELSE /\ ppaEnv' = PpaEnv(config, environ)
               /\ \E ppa \in OutcomesIf(HasPpa(config)),
                     updated \in BOOLEAN, upgraded \in BOOLEAN :
                      UpgradeLeaves(upgrade_run(add_ppa(config, status, ppa),
                                                updated, upgraded))

\* the try block of _register, with what send_registration gave
register_run(r) ==
    IF r.err = "none" THEN r
    ELSE Ran(Blocked(r.msg), r.trace, "none", <<>>, r.critical + 2)

RegisterLeaves(r) ==
    /\ Leave("register", r)
    /\ eventFailed' = (r.status.kind = "Blocked")

register ==
    /\ ccOut' = NotCalled
    /\ ppaEnv' = EmptyDict
    /\ UNCHANGED <<config, environ, confFile, certFile, aptOverride, installed, invocation>>
    /\ IF status.kind = "Maintenance"
          THEN /\ Leave("register", Rejected(status))
               /\ eventFailed' = TRUE
          ELSE \E outcome \in ProcOutcomes :
                   RegisterLeaves(register_run(send_registration(status, outcome)))

Next ==
    \/ on_install
    \/ on_config_changed
    \/ on_relation_departed
    \/ upgrade
    \/ register

Spec == Init /\ [][Next]_vars

----------------------------------------------------------------------------
(* create_client_config on its own: every configuration of Configs, with    *)
(* the certificate file absent or present, the supplied path a file or     *)
(* not, and CERT_FILE writable or not.                                     *)

InitCreate ==
    /\ config \in Configs
    /\ environ = EmptyDict
    /\ status = Maintenance(<<>>)
    /\ confFile = Doc.client
    /\ certFile \in {NoCert, <<0>>}
    /\ aptOverride = FALSE
    /\ installed = TRUE
    /\ trigger = "none"
    /\ trace = <<>>
    /\ ppaEnv = EmptyDict
    /\ raised = "none"
    /\ ccOut = NotCalled
    /\ critical = 0
    /\ eventFailed = FALSE
    /\ invocation = NotCalled

Created(fs, cc) ==
    /\ ccOut' = [called |-> TRUE, fs |-> fs, file |-> confFile, out |-> cc]
    /\ certFile' = cc.cert

Create ==
    /\ ccOut = NotCalled
    /\ \E files \in {{}, {Cert.path}}, writable \in BOOLEAN :
           Created([files |-> files, cert |-> certFile, writable |-> writable],
                   create_client_config(
                       config, HOSTNAME,
                       [files |-> files, cert |-> certFile, writable |-> writable]))
    /\ UNCHANGED <<config, environ, status, confFile, aptOverride, installed,
                   trigger, trace, ppaEnv, raised, critical, eventFailed,
                   invocation>>

SpecCreate == InitCreate /\ [][Create]_vars

----------------------------------------------------------------------------
(* merge_client_config on its own: create_client_config has returned the    *)
(* new values, and CLIENT_CONF_FILE is one of MergeFiles.                   *)

K_account_name == <<"account", "_", "name">>

\* CLIENT_CONF_FILE before the merge: missing, the files of the tests, the
\* second as config.write leaves it, a file with a comment, a file with a
\* second section, a file without [client]
MergeFiles ==
    {NoFile, Doc.client, F_onward, F_onward \o <<NL, NL>>,
     <<"#", BLANK, "note", NL, "[", "client", "]", NL,
       "account", "_", "name", "=", "onward", NL>>,
     F_onward \o <<NL, "ping", "_", "url", BLANK, "=", BLANK, "old", NL, NL,
                   "[", "other", "]", NL, "account", "_", "name", BLANK, "=",
                   BLANK, "keep", NL, NL>>,
     Doc.other}

MergeOptions ==
    {<<K_account_name, Str(<<"new">>)>>,
     <<K_account_name, Str(<<>>)>>,
     <<K_account_name, Str(<<"50", PERCENT>>)>>,
     <<<<"ping", "_", "url">>, Str(<<"url">>)>>,
     <<<<"ping", "_", "url">>, Str(<<>>)>>,
     <<<<"flag">>, Bool(TRUE)>>,
     <<<<"flag">>, Bool(FALSE)>>}

\* the client configs handed to merge_client_config
MergeValues ==
    {MakeConfig(opts) :
        opts \in {o \in SUBSET MergeOptions : \A a \in o, b \in o : a[1] = b[1] => a = b}}

\* create_client_config returned client_config
Returning(client_config) ==
    [ok |-> TRUE, err |-> "none", msg |-> <<>>, val |-> client_config,
     cert |-> NoCert, resolved |-> {}, warned |-> FALSE, critical |-> 0]

InitMerge ==
    /\ config = EmptyDict
    /\ environ = EmptyDict
    /\ status = Configuring
    /\ confFile \in MergeFiles
    /\ certFile = NoCert
    /\ aptOverride = FALSE
    /\ installed = TRUE
    /\ trigger = "none"
    /\ trace = <<>>
    /\ ppaEnv = EmptyDict
    /\ raised = "none"
    /\ \E client_config \in MergeValues :
           ccOut = [called |-> TRUE,
                    fs |-> [files |-> {}, cert |-> NoCert, writable |-> TRUE],
                    file |-> confFile, out |-> Returning(client_config)]
    /\ critical = 0
    /\ eventFailed = FALSE
    /\ invocation = NotCalled

MergeLeaves(s) ==
    /\ Leave("set_client_config", s.run)
    /\ confFile' = s.file

\* the last statement of set_client_config
Merge ==
    /\ trigger = "none"
    /\ MergeLeaves(SetFrom(status, confFile, ccOut.out))
    /\ UNCHANGED <<config, environ, certFile, aptOverride, installed, ppaEnv,
                   ccOut, eventFailed, invocation>>

SpecMerge == InitMerge /\ [][Merge]_vars

----------------------------------------------------------------------------
(* process_helper on its own: every outcome of GatewayOutcomes, with and    *)
(* without hide_errors.                                                     *)

\* the largest exit status of the commands
MaxReturnCode == 2

\* what a command prints, one character an atom
GatewayOutputs ==
    {<<>>, <<"O", "K">>, FAILURE, <<"f", "a", "i", "l", "u", "r", "e">>,
     <<"F", "a", "i", "l">>, <<"a", ":", " ">> \o FAILURE \o <<".">>,
     <<"F", "a", "i", "l", " ", "u", "r", "e">>}

\* a command killed by a signal has a negative returncode
GatewayOutcomes ==
    {NotSpawned}
        \cup {Spawned(rc, out) : rc \in (-1)..MaxReturnCode, out \in GatewayOutputs}

InitGateway ==
    /\ config = EmptyDict
    /\ environ = EmptyDict
    /\ status = Maintenance(<<>>)
    /\ confFile = NoFile
    /\ certFile = NoCert
    /\ aptOverride = FALSE
    /\ installed = FALSE
    /\ trigger = "none"
    /\ trace = <<>>
    /\ ppaEnv = EmptyDict
    /\ raised = "none"
    /\ ccOut = NotCalled
    /\ critical = 0
    /\ eventFailed = FALSE
    /\ \E outcome \in GatewayOutcomes, hide_errors \in BOOLEAN :
           invocation = [called |-> FALSE, outcome |-> outcome,
                         hide_errors |-> hide_errors]

Invoked(p) ==
    /\ invocation' = [called |-> TRUE, outcome |-> invocation.outcome,
                      hide_errors |-> invocation.hide_errors, ok |-> p.ok]
    /\ critical' = p.critical
    /\ trace' = <<Step("process_helper", p.ok)>>

Invoke ==
    /\ ~invocation.called
    /\ Invoked(process_helper(invocation.outcome, invocation.hide_errors))
    /\ UNCHANGED <<config, environ, status, confFile, certFile, aptOverride,
                   installed, trigger, ppaEnv, raised, ccOut, eventFailed>>

SpecGateway == InitGateway /\ [][Invoke]_vars

----------------------------------------------------------------------------
(* add_ppa under every proxy setting: the install trigger, with the PPA     *)
(* and the proxies configured or not and the proxy variables in os.environ *)
(* or not.                                                                  *)

PpaConfigs ==
    {MakeConfig(opts) :
        opts \in {o \in SUBSET {<<K_ppa, Str(<<"ppa">>)>>, <<K_ppa, Str(<<>>)>>,
                                <<J.http_proxy, Str(<<"http://override-proxy.test:3128">>)>>,
                                <<J.https_proxy,
                                  Str(<<"http://override-proxy-https.test:3128">>)>>} :
                      \A a \in o, b \in o : a[1] = b[1] => a = b}}

PpaEnvirons ==
    {[k \in names |->
         CASE k = <<"JUJU", "_", "CHARM", "_", "HTTP", "_", "PROXY">> ->
                  <<"http://proxy.test:3128">>
           [] k = <<"JUJU", "_", "CHARM", "_", "HTTPS", "_", "PROXY">> ->
                  <<"http://proxy-https.test:3128">>
           [] k = HTTP_PROXY -> <<"http://inherited.test:3128">>
           [] OTHER -> <<"/usr/bin">>] :
        names \in SUBSET {<<"JUJU", "_", "CHARM", "_", "HTTP", "_", "PROXY">>,
                          <<"JUJU", "_", "CHARM", "_", "HTTPS", "_", "PROXY">>,
                          HTTP_PROXY, <<"PATH">>}}

InitPpa ==
    /\ config \in PpaConfigs
    /\ environ \in PpaEnvirons
    /\ status = Maintenance(<<>>)
    /\ confFile = NoFile
    /\ certFile = NoCert
    /\ aptOverride = FALSE
    /\ installed = FALSE
    /\ trigger = "none"
    /\ trace = <<>>
    /\ ppaEnv = EmptyDict
    /\ raised = "none"
    /\ ccOut = NotCalled
    /\ critical = 0
    /\ eventFailed = FALSE
    /\ invocation = NotCalled

SpecPpa == InitPpa /\ [][on_install]_vars

----------------------------------------------------------------------------
(* What the claims speak of *)

\* how often the last handler ran step op
Count(op) == Cardinality({i \in 1..Len(trace) : trace[i].op = op})

\* the last handler ran step op, and the step failed
Failed(op) == \E i \in 1..Len(trace) : trace[i] = Step(op, FALSE)

ProbeReached == trigger = "config-changed" /\ Count("is-registered") = 1

ProbeSaysRegistered == \E i \in 1..Len(trace) : trace[i] = Step("is-registered", TRUE)

\* C1: on a config-changed trigger that reaches the registration probe, a
\* probe that reports Registered is followed by exactly one restart command
\* and no registration command, a probe that reports Unregistered by exactly
\* one registration command and no restart command.
C1_ProbeSelectsCommand ==
    ProbeReached =>
        /\ Count("restart") = (IF ProbeSaysRegistered THEN 1 ELSE 0)
        /\ Count("register") = (IF ProbeSaysRegistered THEN 0 ELSE 1)
        /\ trace[Len(trace) - 1].op = "is-registered"

C1_Witness ==
    /\ ProbeReached
    /\ ~ProbeSaysRegistered
    /\ trace[Len(trace)] = Step("register", TRUE)

\* C2 (as claimed): when merge_client_config is called and CLIENT_CONF_FILE
\* does not exist, the merge completes without raising and the file then
\* holds the truthy new values in its client section.
C2_MissingFileMerges ==
    (trigger = "config-changed" /\ ccOut.called /\ ccOut.out.ok
         /\ ccOut.file = NoFile)
        => /\ raised = "none"
           /\ ~Failed("merge_client_config")
           /\ confFile # NoFile

NonProbeCommands == {"add-apt-repository", "register", "restart", "disable"}

\* C3 (as claimed): a handler in which a non-probe external command failed
\* ends in Blocked status.
C3_CommandFailureBlocks ==
    (\E op \in NonProbeCommands : Failed(op)) => status.kind = "Blocked"

\* C4 (as claimed): in every flow, a failed add-apt-repository ends the
\* handler in Blocked "Failed to add PPA!", nothing escapes the handler and
\* no later step runs.
C4_PpaFailureBlocks ==
    Failed("add-apt-repository")
        => /\ status = Blocked(<<"Failed to add PPA!">>)
           /\ raised = "none"
           /\ trace[Len(trace)].op = "add-apt-repository"

\* create_client_config was called and returned a client config
Returned == ccOut.called /\ ccOut.out.ok

\* what get_additional_client_configuration makes of the configuration
Additional == get_additional_client_configuration(config)

\* the client config before the certificate step: the renamed keys, the
\* additional configuration over them, the default computer title
Supplied ==
    SetDefault(Update(RenamedConfig(config), Additional.val),
               K_computer_title, Str(HOSTNAME))

\* C5 (as claimed): the returned client config has no key of the exclusion set.
C5_NoCharmOnlyKey == Returned => DOMAIN ccOut.out.val \cap CHARM_ONLY_CONFIGS = {}

\* C5 (amended): a key of the exclusion set is in the returned client config
\* exactly when the additional-client-configuration document defines an
\* option of that name for the client section; the keys of the raw
\* configuration that are in the exclusion set never reach it.
C5_CharmOnlyKeyOnlyFromAdditional ==
    Returned =>
        DOMAIN ccOut.out.val \cap CHARM_ONLY_CONFIGS
            = DOMAIN Additional.val \cap CHARM_ONLY_CONFIGS

C5_Witness ==
    /\ Returned
    /\ K_ppa \in DOMAIN config
    /\ K_additional_client_configuration \in DOMAIN config
    /\ Additional.val # EmptyDict
    /\ K_ppa \notin DOMAIN ccOut.out.val

\* the entry of key k holds a path: the supplied path of an existing file,
\* or CERT_FILE, written with the decoded bytes of the supplied text
HoldsPath(k) ==
    \/ /\ isfile(Supplied[k].str, ccOut.fs)
       /\ ccOut.out.val[k] = Supplied[k]
    \/ /\ ccOut.out.val[k] = Str(CERT_FILE)
       /\ b64decode(Supplied[k].str).err = "none"
       /\ certFile = b64decode(Supplied[k].str).bytes

\* C6 (as claimed): after a successful return, every certificate entry that
\* has a value holds a path, never the supplied base64 text.
C6_EveryCertificateIsPath ==
    Returned =>
        \A k \in {K_ssl_ca, K_ssl_public_key} :
            GetTruthy(ccOut.out.val, k) => HoldsPath(k)

\* C6 (amended): after a successful return, ssl_ca holds a path when it has
\* a value, and ssl_public_key holds a path when it has a value and ssl_ca
\* has none; an ssl_public_key next to an ssl_ca that has a value is left as
\* supplied.
C6_ResolvedCertificateIsPath ==
    Returned =>
        /\ GetTruthy(Supplied, K_ssl_ca) => HoldsPath(K_ssl_ca)
        /\ (~GetTruthy(Supplied, K_ssl_ca) /\ GetTruthy(Supplied, K_ssl_public_key))
               => HoldsPath(K_ssl_public_key)
        /\ (GetTruthy(Supplied, K_ssl_ca) /\ K_ssl_public_key \in DOMAIN Supplied)
               => ccOut.out.val[K_ssl_public_key] = Supplied[K_ssl_public_key]

C6_Witness ==
    /\ Returned
    /\ GetTruthy(Supplied, K_ssl_ca)
    /\ Supplied[K_ssl_ca] = Str(Cert.b64)
    /\ ccOut.out.val[K_ssl_ca] = Str(CERT_FILE)
    /\ certFile = <<104, 105>>

\* C7 (as claimed): at most one certificate key is resolved; ssl_ca is the one
\* whenever the ssl_ca key is present, and ssl_public_key is resolved, with
\* the deprecation warning, only when the ssl_ca key is not present.
C7_PresentSslCaWins ==
    (ccOut.called /\ Additional.ok) =>
        /\ Cardinality(ccOut.out.resolved) <= 1
        /\ K_ssl_ca \in DOMAIN Supplied => ccOut.out.resolved = {K_ssl_ca}
        /\ K_ssl_public_key \in ccOut.out.resolved => K_ssl_ca \notin DOMAIN Supplied
        /\ ccOut.out.warned => K_ssl_public_key \in ccOut.out.resolved

\* C7 (amended): at most one certificate key is resolved; ssl_ca is the one
\* whenever it has a non-empty value, and ssl_public_key is resolved, with
\* the deprecation warning once it is, only when ssl_ca is absent or empty.
C7_NonEmptySslCaWins ==
    (ccOut.called /\ Additional.ok) =>
        /\ Cardinality(ccOut.out.resolved) <= 1
        /\ GetTruthy(Supplied, K_ssl_ca) => ccOut.out.resolved = {K_ssl_ca}
        /\ K_ssl_public_key \in ccOut.out.resolved => ~GetTruthy(Supplied, K_ssl_ca)
        /\ ccOut.out.warned => K_ssl_public_key \in ccOut.out.resolved
        /\ (ccOut.out.ok /\ K_ssl_public_key \in ccOut.out.resolved) => ccOut.out.warned

C7_Witness ==
    /\ Returned
    /\ GetTruthy(Supplied, K_ssl_ca)
    /\ GetTruthy(Supplied, K_ssl_public_key)
    /\ ccOut.out.resolved = {K_ssl_ca}
    /\ ~ccOut.out.warned

\* the certificate of key k cannot be resolved: it names no file, and it
\* cannot be decoded or CERT_FILE cannot be written
Unresolvable(k) ==
    /\ GetTruthy(Supplied, k)
    /\ ~isfile(Supplied[k].str, ccOut.fs)
    /\ (b64decode(Supplied[k].str).err # "none" \/ ~ccOut.fs.writable)

\* C8 (as claimed): when the resolution of the certificate fails,
\* create_client_config fails with ClientCharmError and no other error.
C8_ResolutionFailureIsClientCharmError ==
    (ccOut.called /\ Additional.ok
         /\ \E k \in ccOut.out.resolved : Unresolvable(k))
        => (~ccOut.out.ok /\ ccOut.out.err = "ClientCharmError")

\* the additional-client-configuration document of the configuration, <<>>
\* when it is absent
Document ==
    IF K_additional_client_configuration \in DOMAIN config
        THEN config[K_additional_client_configuration].str
        ELSE <<>>

\* the names of the sections the document opens
SectionNames(raw) ==
    {HeaderName(Strip(SplitLines(raw)[i])) :
        i \in {j \in 1..Len(SplitLines(raw)) : IsHeader(Strip(SplitLines(raw)[j]))}}

\* C9 (as claimed): a non-empty document with no section header, or with no
\* section named client, fails with ClientCharmError, and the message
\* contains the document (as it is, or as repr() shows it).
C9_NoClientSectionIsClientCharmError ==
    (ccOut.called /\ Document # <<>> /\ CLIENT \notin SectionNames(Document))
        => /\ ~ccOut.out.ok
           /\ ccOut.out.err = "ClientCharmError"
           /\ \/ Contains(ccOut.out.msg, Document)
              \/ Contains(ccOut.out.msg, Repr(Document))

\* C10 (as claimed): a document the parser rejects makes create_client_config
\* fail with ClientCharmError, and the config-changed handler ends Blocked
\* with nothing escaping it.
C10_ParseFailureBlocks ==
    (trigger = "config-changed" /\ ccOut.called /\ ~Additional.ok)
        => /\ ccOut.out.err = "ClientCharmError"
           /\ status.kind = "Blocked"
           /\ raised = "none"

\* the new values of the merge, the parsed file before and after it
NewValues == ccOut.out.val
Before == ReadFile(ccOut.file)
Afterwards == ReadFile(confFile)

\* merge_client_config ran on a file that has a client section
MergedExisting ==
    /\ trigger = "set_client_config"
    /\ ccOut.file # NoFile
    /\ Before.err = "none"
    /\ HasSection(Before.sections, CLIENT)

\* the items of a section of a parsed file, as a dict
Items(parsed, name) ==
    ItemsDict(parsed.sections[SectionIndex(parsed.sections, name)].items)

\* C11 (as claimed): after a merge into an existing config file, every truthy
\* new value is in the client section as a string, every falsy one leaves
\* the key as it was, every other key and section is unchanged, and a merge
\* of falsy values only leaves the sections and options of the file unchanged.
C11_MergeFrame ==
    MergedExisting =>
        /\ raised = "none"
        /\ Afterwards.err = "none"
        /\ HasSection(Afterwards.sections, CLIENT)
        /\ \A k \in DOMAIN NewValues :
               Truthy(NewValues[k]) =>
                   /\ k \in DOMAIN Items(Afterwards, CLIENT)
                   /\ Items(Afterwards, CLIENT)[k] = PyStr(NewValues[k])
        /\ \A k \in DOMAIN Items(Afterwards, CLIENT) \cup DOMAIN Items(Before, CLIENT) :
               (k \notin DOMAIN NewValues \/ ~Truthy(NewValues[k])) =>
                   /\ k \in DOMAIN Items(Afterwards, CLIENT)
                   /\ k \in DOMAIN Items(Before, CLIENT)
                   /\ Items(Afterwards, CLIENT)[k] = Items(Before, CLIENT)[k]
        /\ {Afterwards.sections[i] : i \in 1..Len(Afterwards.sections)}
               \ {[name |-> CLIENT, items |-> Afterwards.sections[SectionIndex(Afterwards.sections, CLIENT)].items]}
             = {Before.sections[i] : i \in 1..Len(Before.sections)}
               \ {[name |-> CLIENT, items |-> Before.sections[SectionIndex(Before.sections, CLIENT)].items]}
        /\ (\A k \in DOMAIN NewValues : ~Truthy(NewValues[k])) => Afterwards = Before

\* the orchestrator's layer of the client config: the renamed keys
Explicit == RenamedConfig(config)

\* C12: in the returned client config every key of the additional
\* configuration holds the additional value, also when the orchestrator's
\* configuration sets the same key, and every key of either layer is present
\* (a certificate key that was resolved holds its path instead).
C12_AdditionalWins ==
    Returned =>
        /\ DOMAIN Additional.val \cup DOMAIN Explicit \subseteq DOMAIN ccOut.out.val
        /\ \A k \in DOMAIN Additional.val \ ccOut.out.resolved :
               ccOut.out.val[k] = Additional.val[k]
        /\ \A k \in DOMAIN Explicit \ (DOMAIN Additional.val \cup ccOut.out.resolved) :
               ccOut.out.val[k] = Explicit[k]

C12_Witness ==
    /\ Returned
    /\ K_account_name \in DOMAIN Explicit \cap DOMAIN Additional.val
    /\ Explicit[K_account_name] # Additional.val[K_account_name]
    /\ ccOut.out.val[K_account_name] = Additional.val[K_account_name]

\* the output of the command holds the text Failure, in this case of letters
SaysFailure(output) ==
    \E i \in 1..(Len(output) - 6) :
        /\ output[i] = "F" /\ output[i + 1] = "a" /\ output[i + 2] = "i"
        /\ output[i + 3] = "l" /\ output[i + 4] = "u" /\ output[i + 5] = "r"
        /\ output[i + 6] = "e"

\* C13: process_helper returns True exactly when the process was spawned,
\* exited with 0 and printed no "Failure"; it returns False in every other
\* case.
C13_SuccessCondition ==
    invocation.called =>
        (invocation.ok <=>
            /\ invocation.outcome.spawned
            /\ invocation.outcome.returncode = 0
            /\ ~SaysFailure(invocation.outcome.output))

C13_Witness ==
    /\ invocation.called
    /\ invocation.outcome.spawned
    /\ invocation.outcome.returncode = 0
    /\ SaysFailure(invocation.outcome.output)
    /\ ~invocation.ok

\* C14 (as claimed): no failure of a call with hide_errors (a non-zero exit,
\* "Failure" in the output, a process that could not be spawned) logs a
\* critical record.
C14_HiddenFailureNotCritical ==
    (invocation.called /\ invocation.hide_errors /\ ~invocation.ok) => critical = 0

\* step number i of the last handler is op, and it succeeded
Done(i, op) == trace[i] = Step(op, TRUE)

\* in the last handler the merge is complete before the probe, and the probe
\* is made before a restart or a registration
ProbeInOrder ==
    /\ \A i \in 1..Len(trace) :
           trace[i].op = "is-registered" =>
               \E j \in 1..(i - 1) :
                   /\ Done(j, "merge_client_config")
                   /\ \E m \in 1..(j - 1) : Done(m, "create_client_config")
    /\ \A i \in 1..Len(trace) :
           trace[i].op \in {"restart", "register"} =>
               \E j \in 1..(i - 1) : trace[j].op = "is-registered"

\* C15 (as claimed): every config-changed trigger re-applies the
\* configuration, then probes, then restarts or registers, and none finishes
\* without the merge and the probe.
C15_AlwaysReappliesAndProbes ==
    trigger = "config-changed" =>
        /\ ProbeInOrder
        /\ \E j \in 1..Len(trace) : Done(j, "merge_client_config")
        /\ Count("is-registered") = 1

\* C15 (amended): on a config-changed trigger the merge is complete before
\* the probe and the probe is made before a restart or a registration; the
\* trigger finishes without a probe exactly when the client package is not
\* installed, the PPA could not be added, or the configuration could not be
\* created or merged.
C15_ReappliesBeforeProbe ==
    trigger = "config-changed" =>
        /\ ProbeInOrder
        /\ Count("is-registered") <= 1
        /\ Count("is-registered") = 0 <=>
               \/ ~installed
               \/ Failed("add-apt-repository")
               \/ Failed("create_client_config")
               \/ Failed("merge_client_config")

C15_Witness ==
    /\ trigger = "config-changed"
    /\ trace = <<Step("create_client_config", TRUE),
                 Step("merge_client_config", TRUE),
                 Step("is-registered", FALSE), Step("register", TRUE)>>

\* the status of a registered unit
REGISTERED == Active(<<"Client registered!">>)

\* the registration command of the last handler decides its status
RegistrationSurfaced ==
    /\ Failed("register") =>
           /\ trigger \in {"config-changed", "register"}
           /\ status = Blocked(<<"Registration failed!">>)
           /\ raised = "none"
    /\ (\E i \in 1..Len(trace) : Done(i, "register")) =>
           /\ trigger \in {"config-changed", "register"}
           /\ status = REGISTERED

\* a handler that leaves the unit Active "Client registered!" when it did
\* not find it so has issued the registration command with success
SetsRegistered ==
    (status' = REGISTERED /\ status # REGISTERED) =>
        \E i \in 1..Len(trace') : trace'[i] = Step("register", TRUE)

\* C16: a registration command that fails ends its trigger Blocked with
\* "Registration failed!", one that succeeds ends it Active with "Client
\* registered!", and that status is never set without a successful
\* registration command in the same trigger.
C16_RegistrationOutcome == [](RegistrationSurfaced) /\ [][SetsRegistered]_vars

C16_Witness ==
    /\ trigger = "register"
    /\ trace = <<Step("register", FALSE)>>
    /\ status = Blocked(<<"Registration failed!">>)
    /\ eventFailed

\* an upgrade or register action that arrives while the unit is in
\* maintenance changes nothing and issues nothing, and fails the event
RejectsInMaintenance ==
    (trigger' \in {"upgrade", "register"} /\ status.kind = "Maintenance") =>
        /\ status' = status
        /\ trace' = <<>>
        /\ ppaEnv' = EmptyDict
        /\ eventFailed'
        /\ critical' = 1
        /\ raised' = "none"
        /\ UNCHANGED <<config, confFile, certFile, aptOverride, installed>>

\* C17: an upgrade or register action that arrives while the unit status is
\* Maintenance is rejected: the event is logged and failed, no external
\* command is issued and the unit status is left as it was.
C17_MaintenanceRejectsActions == [][RejectsInMaintenance]_vars

C17_Witness ==
    /\ trigger = "upgrade"
    /\ status = Maintenance(<<"Disabling landscape client..">>)
    /\ trace = <<>>
    /\ eventFailed

\* the commands that decide between restart and registration
RegistrationCommands == {"is-registered", "restart", "register"}

\* C18: install and upgrade never probe the registration state and never
\* issue a restart or a registration command; the probe and the restart
\* come from config-changed only, the registration from config-changed and
\* the register action only.
C18_OnlyConfigChangedDecides ==
    /\ trigger \in {"install", "upgrade"} =>
           \A i \in 1..Len(trace) : trace[i].op \notin RegistrationCommands
    /\ \A i \in 1..Len(trace) :
           /\ trace[i].op \in {"is-registered", "restart"} => trigger = "config-changed"
           /\ trace[i].op = "register" => trigger \in {"config-changed", "register"}

C18_Witness ==
    /\ trigger = "install"
    /\ trace = <<Step("add-apt-repository", TRUE), Step("apt.add_package", TRUE)>>

\* the names that go with a proxy variable: the charm's configuration key
\* and the variable of the model's proxy
ConfigKey(proxy_var) == IF proxy_var = HTTP_PROXY THEN J.http_proxy ELSE J.https_proxy
JujuVar(proxy_var) ==
    <<"JUJU", "_", "CHARM", "_">>
        \o (IF proxy_var = HTTP_PROXY THEN <<"HTTP">> ELSE <<"HTTPS">>)
        \o <<"_", "PROXY">>

\* the value the repository-addition command is to find in proxy_var
ProxyFor(proxy_var) ==
    IF ConfigKey(proxy_var) \in DOMAIN config
        THEN /\ proxy_var \in DOMAIN ppaEnv
             /\ ppaEnv[proxy_var] = config[ConfigKey(proxy_var)].str
    ELSE IF JujuVar(proxy_var) \in DOMAIN environ
        THEN /\ proxy_var \in DOMAIN ppaEnv
             /\ ppaEnv[proxy_var] = environ[JujuVar(proxy_var)]
    ELSE /\ proxy_var \in DOMAIN ppaEnv <=> proxy_var \in DOMAIN environ
         /\ proxy_var \in DOMAIN environ => ppaEnv[proxy_var] = environ[proxy_var]

\* C19: with a PPA configured the repository-addition command is issued once,
\* with http_proxy and https_proxy taken from the charm configuration, else
\* from JUJU_CHARM_HTTP(S)_PROXY, else left as the process environment has
\* them, and with every other variable passed through; with no PPA
\* configured the command is not issued.
C19_ProxyPrecedence ==
    trigger = "install" =>
        IF K_ppa \in DOMAIN config /\ config[K_ppa].str # <<>>
            THEN /\ Count("add-apt-repository") = 1
                 /\ trace[1].op = "add-apt-repository"
                 /\ ProxyFor(HTTP_PROXY)
                 /\ ProxyFor(HTTPS_PROXY)
                 /\ \A k \in (DOMAIN environ \cup DOMAIN ppaEnv) \ {HTTP_PROXY, HTTPS_PROXY} :
                        /\ k \in DOMAIN environ
                        /\ k \in DOMAIN ppaEnv
                        /\ ppaEnv[k] = environ[k]
            ELSE Count("add-apt-repository") = 0

C19_Witness ==
    /\ trigger = "install"
    /\ Count("add-apt-repository") = 1
    /\ J.http_proxy \in DOMAIN config
    /\ JujuVar(HTTP_PROXY) \in DOMAIN environ
    /\ HTTP_PROXY \in DOMAIN environ
    /\ J.https_proxy \notin DOMAIN config
    /\ JujuVar(HTTPS_PROXY) \in DOMAIN environ
    /\ ppaEnv[HTTP_PROXY] = <<"http://override-proxy.test:3128">>
    /\ ppaEnv[HTTPS_PROXY] = <<"http://proxy-https.test:3128">>

\* the client config after exclusion, renaming and the overlay of the
\* additional configuration
Overlaid ==
    [k \in DOMAIN Explicit \cup DOMAIN Additional.val |->
        IF k \in DOMAIN Additional.val THEN Additional.val[k] ELSE Explicit[k]]

\* C20: the returned client config holds the default computer title exactly
\* when neither layer has a computer_title key; a computer_title of either
\* layer, an empty one too, is left as supplied.
C20_DefaultComputerTitle ==
    Returned =>
        /\ K_computer_title \in DOMAIN ccOut.out.val
        /\ ccOut.out.val[K_computer_title] =
               (IF K_computer_title \in DOMAIN Overlaid
                    THEN Overlaid[K_computer_title]
                    ELSE Str(HOSTNAME))

C20_Witness ==
    /\ Returned
    /\ K_computer_title \in DOMAIN Explicit
    /\ Explicit[K_computer_title] = Str(<<>>)
    /\ K_computer_title \notin DOMAIN Additional.val
    /\ ccOut.out.val[K_computer_title] = Str(<<>>)

\* the configuration with the option `key` not set
Unset(juju_config, key) == [k \in DOMAIN juju_config \ {key} |-> juju_config[k]]

\* the additional-client-configuration option is absent, empty, or a document
\* that is only an empty [client] section
NothingAdditional ==
    \/ K_additional_client_configuration \notin DOMAIN config
    \/ config[K_additional_client_configuration].str \in {<<>>, Doc.client}

\* C21: an absent or empty additional-client-configuration value, and a
\* document that is only an empty [client] section, parse to the empty
\* mapping without error, and create_client_config then gives what it gives
\* for the same configuration with the option not set.
C21_EmptyAdditionalIsUnset ==
    (ccOut.called /\ NothingAdditional) =>
        /\ Additional = [ok |-> TRUE, val |-> EmptyDict]
        /\ ccOut.out =
               create_client_config(Unset(config, K_additional_client_configuration),
                                    HOSTNAME, ccOut.fs)

C21_Witness ==
    /\ Returned
    /\ K_additional_client_configuration \in DOMAIN config
    /\ config[K_additional_client_configuration].str = <<>>
    /\ J.account_name \in DOMAIN config
    /\ ccOut.out.val[K_account_name] = config[J.account_name]

\* create_client_config raised ClientCharmError in the last handler
ConfigurationError ==
    ccOut.called /\ ~ccOut.out.ok /\ ccOut.out.err = "ClientCharmError"

\* C22: when create_client_config raises ClientCharmError in a config-changed
\* trigger, CLIENT_CONF_FILE is as it was before the trigger, the trigger
\* issues no merge, probe, restart or registration, and it ends Blocked with
\* the message of the error, with nothing escaping it.
C22_ConfigErrorBlocksBeforeMerge ==
    (trigger = "config-changed" /\ ConfigurationError) =>
        /\ confFile = ccOut.file
        /\ \A i \in 1..Len(trace) :
               trace[i].op \notin RegistrationCommands \cup {"merge_client_config"}
        /\ status = Blocked(ccOut.out.msg)
        /\ raised = "none"

C22_Witness ==
    /\ trigger = "config-changed"
    /\ ConfigurationError
    /\ config = Cfg.cert
    /\ status = Blocked(CertificateMissing)
    /\ confFile = F_onward

\* disable-unattended-upgrades is set and truthy in the configuration
DisablesUnattendedUpgrades ==
    /\ K_disable_unattended_upgrades \in DOMAIN config
    /\ Truthy(config[K_disable_unattended_upgrades])

\* C23: after every config-changed trigger, whatever the triggers before it,
\* whether or not the client package is installed and however the rest of
\* the trigger ends, APT_CONF_OVERRIDE exists exactly when
\* disable-unattended-upgrades is truthy in the configuration of that trigger.
C23_OverrideFollowsOption ==
    trigger = "config-changed" => (aptOverride <=> DisablesUnattendedUpgrades)

C23_Witness ==
    /\ trigger = "config-changed"
    /\ ~installed
    /\ config = Cfg.account
    /\ aptOverride
    /\ trace = <<>>

\* the last handler has set a Maintenance status on its way and has returned
SetMaintenanceAndReturned ==
    /\ raised = "none"
    /\ trace # <<>>
    /\ \/ trigger \in {"install", "config-changed", "relation-departed"}
       \/ trigger = "upgrade" /\ Count("add-apt-repository") = 1

\* C24 (as claimed): a handler that has set Maintenance (install,
\* config-changed, relation-departed, upgrade through add_ppa) ends Active or
\* Blocked when it returns, so that no later upgrade or register action is
\* rejected for a trigger that is over.
C24_NoHandlerLeavesMaintenance ==
    SetMaintenanceAndReturned => status.kind \in {"Active", "Blocked"}

\* the options of the client section of a parsed config file, as a dict
ClientOptionsOf(parsed) ==
    IF parsed.err = "none" /\ HasSection(parsed.sections, CLIENT)
        THEN Items(parsed, CLIENT)
        ELSE EmptyDict

\* the handler that has just run wrote the truthy value it had for key k
WroteTruthy(call, k, value) ==
    /\ call.called
    /\ call.out.ok
    /\ k \in DOMAIN call.out.val
    /\ Truthy(call.out.val[k])
    /\ value = PyStr(call.out.val[k])

\* every option of `before` is in `after`, with the value it had unless the
\* last handler was a config-changed that wrote a truthy value for it
KeptFrom(before, after) ==
    \A k \in DOMAIN before :
        /\ k \in DOMAIN after
        /\ after[k] # before[k] =>
               /\ trigger = "config-changed"
               /\ WroteTruthy(ccOut, k, after[k])

\* the last handler that called create_client_config has kept the options of
\* the file it found
KeysKept ==
    ccOut.called =>
        KeptFrom(ClientOptionsOf(ReadFile(ccOut.file)),
                 ClientOptionsOf(ReadFile(confFile)))

\* a handler that calls create_client_config finds the file the handler
\* before it left, and a handler that does not call it leaves the file alone
FileOnlyThroughMerge ==
    IF ccOut'.called THEN ccOut'.file = confFile ELSE confFile' = confFile

\* C25: in every sequence of triggers the keys of the client section of
\* CLIENT_CONF_FILE never shrink: a key that is in the file stays there, with
\* its value unless a config-changed trigger writes a truthy value for it, so
\* a key whose option is later unset, emptied or set to false keeps the
\* last truthy value it was written with.
C25_ClientKeysNeverShrink == [](KeysKept) /\ [][FileOnlyThroughMerge]_vars

C25_Witness ==
    /\ trigger = "config-changed"
    /\ config = Cfg.unset
    /\ \E i \in 1..Len(trace) : Done(i, "merge_client_config")
    /\ K_account_name \in DOMAIN ClientOptionsOf(ReadFile(confFile))
    /\ ClientOptionsOf(ReadFile(confFile))[K_account_name] = <<"accountname">>

====
